---- MODULE Spec2Model ----
(***************************************************************************)
(* A model of ands/ds/Heap.py (BHNode, BinaryHeap) and of                  *)
(* ands/algorithms/dp/max_sum_contiguous_subsequence.py.                   *)
(*                                                                         *)
(* Four specifications share the variables:                                *)
(*   Spec      the heap engine driven by a min-ordering policy, int keys,  *)
(*   SpecMixed the same engine when callers also pass str keys,            *)
(*   SpecIdx   the index arithmetic of BinaryHeap over (size, index),      *)
(*   SpecMscs  the four maximum-sum-contiguous-subsequence functions.      *)
(***************************************************************************)
EXTENDS Integers, Sequences, FiniteSets, TLC

VARIABLES
    heap,     \* the receiver's self.heap: a sequence of nodes
    other,    \* the donor heap's o.heap
    mixed,    \* TRUE when the callers also pass string keys
    op,       \* the last operation: its name and argument
    err,      \* how the last operation ended: "none" or the error raised
    pre,      \* self.heap when the last operation was called
    preOther, \* o.heap when the last operation was called
    calls,    \* indices _build_heap passed to _push_down in the last operation
    ret,      \* the value the last operation returned (search, contains)
    size,     \* SpecIdx: the heap size the index functions see
    index,    \* SpecIdx: the index argument
    res,      \* SpecIdx: the last index function applied and its result
    seq,      \* SpecMscs: the input sequence
    out       \* SpecMscs: the last function applied and its result

vars == <<heap, other, mixed, op, err, pre, preOther, calls, ret,
          size, index, res, seq, out>>

heapVars == <<heap, other, mixed, op, err, pre, preOther, calls, ret>>
idxVars == <<size, index, res>>
mscsVars == <<seq, out>>

(***************************************************************************)
(* Bounds of the model.                                                    *)
(***************************************************************************)
MaxKey == 3        \* numeric keys are 1..MaxKey
MaxLen == 3        \* longest collection passed to the constructor
MaxSize == 4       \* add and merge are explored while the result fits
MaxDonor == 2      \* longest collection a donor heap is built from
MaxN == 16         \* SpecIdx: largest heap size
MaxSeqLen == 4     \* SpecMscs: longest input sequence
MaxAbs == 2        \* SpecMscs: the elements are -MaxAbs..MaxAbs

(***************************************************************************)
(* Index arithmetic of BinaryHeap, over the size n of self.heap.           *)
(* A result is [err, val]: val is meaningful when err = "none".            *)
(***************************************************************************)
Ok(v) == [err |-> "none", val |-> v]
Raise(e) == [err |-> e, val |-> -1]

is_good_index(n, i) == ~(i < 0 \/ i >= n)

parent_index_halved(n, i) ==
    IF ~is_good_index(n, i) THEN Raise("IndexError")
    ELSE Ok(IF i = 0 THEN -1 ELSE i \div 2)

parent_index(n, i) ==
    IF ~is_good_index(n, i) THEN Raise("IndexError")
    ELSE Ok(IF i = 0 THEN -1 ELSE (i - 1) \div 2)

left_index(n, i) ==
    IF ~is_good_index(n, i) THEN Raise("IndexError")
    ELSE LET left == i * 2 + 1
         IN  Ok(IF is_good_index(n, left) THEN left ELSE -1)

right_index(n, i) ==
    IF ~is_good_index(n, i) THEN Raise("IndexError")
    ELSE LET right == i * 2 + 2
         IN  Ok(IF is_good_index(n, right) THEN right ELSE -1)

\* int(math.log2(x)) for an integer x >= 1: the number of halvings to reach 1.
RECURSIVE FloorLog2(_)
FloorLog2(x) == IF x <= 1 THEN 0 ELSE 1 + FloorLog2(x \div 2)

\* int(math.log2(i + 1) % 2) == 0; the fractional part of log2 does not
\* change the integer part of the remainder modulo 2.  math.log2 is taken
\* as exact: the float result first rounds up to the next integer at
\* i + 1 = 2^49 - 1, beyond the length of any list.
is_on_even_level_of_index(n, i) ==
    IF ~is_good_index(n, i) THEN [err |-> "IndexError", val |-> FALSE]
    ELSE [err |-> "none", val |-> (FloorLog2(i) % 2) = 0]

is_on_even_level(n, i) ==
    IF ~is_good_index(n, i) THEN [err |-> "IndexError", val |-> FALSE]
    ELSE [err |-> "none", val |-> (FloorLog2(i + 1) % 2) = 0]

is_on_odd_level(n, i) ==
    LET e == is_on_even_level(n, i)
    IN  IF e.err # "none" THEN e ELSE [err |-> "none", val |-> ~e.val]

\* a bool result: [err, val], val a BOOLEAN
Yes(b) == [err |-> "none", val |-> b]
No(e) == [err |-> e, val |-> FALSE]

grandparent_index(n, i) ==
    LET p == parent_index(n, i)
    IN  IF p.err # "none" THEN p
        ELSE IF p.val = -1 THEN Ok(-1)
        ELSE parent_index(n, p.val)

is_child(n, c, i) ==
    IF ~is_good_index(n, c) \/ ~is_good_index(n, i) THEN No("IndexError")
    ELSE Yes(c = left_index(n, i).val \/ c = right_index(n, i).val)

\* _is_grandchild looking below the left child only
is_grandchild_left_only(n, g, i) ==
    LET l == left_index(n, i)
    IN  IF l.err # "none" THEN No(l.err)
        ELSE IF l.val = -1
        THEN IF ~is_good_index(n, g) THEN No("IndexError") ELSE Yes(FALSE)
        ELSE is_child(n, g, l.val)

is_grandchild(n, g, i) ==
    LET l == left_index(n, i)
        r == right_index(n, i)
    IN  IF l.err # "none" THEN No(l.err)
        ELSE IF l.val = -1
        THEN IF r.val # -1 THEN No("AssertionError")
             ELSE IF ~is_good_index(n, g) THEN No("IndexError")
             ELSE Yes(FALSE)
        ELSE IF r.val = -1 THEN is_child(n, g, l.val)
        ELSE LET a == is_child(n, g, l.val)
             IN  IF a.err # "none" \/ a.val THEN a ELSE is_child(n, g, r.val)

is_parent(n, p, i) ==
    IF ~is_good_index(n, p) THEN No("IndexError")
    ELSE LET q == parent_index(n, i)
         IN  IF q.err # "none" THEN No(q.err) ELSE Yes(q.val = p)

is_grandparent(n, g, i) ==
    IF ~is_good_index(n, g) THEN No("IndexError")
    ELSE LET p == parent_index(n, i)
         IN  IF p.err # "none" THEN No(p.err)
             ELSE IF p.val = -1 THEN Yes(FALSE)
             ELSE is_parent(n, g, p.val)

(***************************************************************************)
(* max_sum_contiguous_subsequence.py.  A result is <<_max, start, end>>.   *)
(* Each loop is a recursive operator over the loop variable.               *)
(***************************************************************************)
RECURSIVE SumRange(_, _, _)
\* for k in range(i, j + 1): _sum += seq[k]     (0-based i, j)
SumRange(s, i, j) == IF i > j THEN 0 ELSE s[i + 1] + SumRange(s, i + 1, j)

RECURSIVE bf_inner(_, _, _, _)
\* the loop over j of brute_force_mscs, at fixed i; acc = <<_max, start, end>>
bf_inner(s, i, j, acc) ==
    IF j >= Len(s) THEN acc
    ELSE LET sum == SumRange(s, i, j)
         IN  bf_inner(s, i, j + 1, IF sum > acc[1] THEN <<sum, i, j>> ELSE acc)

RECURSIVE bf_outer(_, _, _)
bf_outer(s, i, acc) ==
    IF i >= Len(s) THEN acc ELSE bf_outer(s, i + 1, bf_inner(s, i, i, acc))

brute_force_mscs(s) == bf_outer(s, 0, <<s[1], 0, 0>>)

RECURSIVE bbf_inner(_, _, _, _, _)
\* the loop over j of better_brute_force_mscs; sum is the running _sum
bbf_inner(s, i, j, sum, acc) ==
    IF j >= Len(s) THEN acc
    ELSE LET sum2 == sum + s[j + 1]
         IN  bbf_inner(s, i, j + 1, sum2,
                       IF sum2 > acc[1] THEN <<sum2, i, j>> ELSE acc)

RECURSIVE bbf_outer(_, _, _)
bbf_outer(s, i, acc) ==
    IF i >= Len(s) THEN acc ELSE bbf_outer(s, i + 1, bbf_inner(s, i, i, 0, acc))

better_brute_force_mscs(s) == bbf_outer(s, 0, <<s[1], 0, 0>>)

RECURSIVE bu_loop(_, _, _, _, _)
\* the loop of bottom_up_mscs; sums and indices are the lists _sum, indices
bu_loop(s, i, sums, indices, acc) ==
    IF i >= Len(s) THEN acc
    ELSE LET extend == sums[i] > 0                 \* _sum[i - 1] > 0
             si == IF extend THEN sums[i] + s[i + 1] ELSE s[i + 1]
             ii == IF extend THEN indices[i] ELSE i
             sums2 == [sums EXCEPT ![i + 1] = si]
             indices2 == [indices EXCEPT ![i + 1] = ii]
         IN  bu_loop(s, i + 1, sums2, indices2,
                     IF si > acc[1] THEN <<si, ii, i>> ELSE acc)

bottom_up_mscs(s) ==
    LET zeros == [k \in 1..Len(s) |-> 0]
    IN  bu_loop(s, 1, [zeros EXCEPT ![1] = s[1]], zeros, <<s[1], 0, 0>>)

RECURSIVE bbu_loop(_, _, _, _, _)
\* the loop of better_bottom_up_mscs; sum, idx are _sum, index
bbu_loop(s, i, sum, idx, acc) ==
    IF i >= Len(s) THEN acc
    ELSE LET extend == sum > 0
             sum2 == IF extend THEN sum + s[i + 1] ELSE s[i + 1]
             idx2 == IF extend THEN idx ELSE i
         IN  bbu_loop(s, i + 1, sum2, idx2,
                      IF sum2 > acc[1] THEN <<sum2, idx2, i>> ELSE acc)

RECURSIVE bbu_loop_never_restart(_, _, _, _, _)
\* better_bottom_up_mscs with the running sum never restarted
bbu_loop_never_restart(s, i, sum, idx, acc) ==
    IF i >= Len(s) THEN acc
    ELSE LET sum2 == sum + s[i + 1]
         IN  bbu_loop_never_restart(s, i + 1, sum2, idx,
                      IF sum2 > acc[1] THEN <<sum2, idx, i>> ELSE acc)

better_bottom_up_mscs_never_restart(s) ==
    bbu_loop_never_restart(s, 1, s[1], 0, <<s[1], 0, 0>>)

better_bottom_up_mscs(s) == bbu_loop(s, 1, s[1], 0, <<s[1], 0, 0>>)

(***************************************************************************)
(* BHNode.  A key or a value is an atom [t, v]: t is the Python type       *)
(* ("int", "str" or "none" for None) and v the value within that type.     *)
(* A node is [id, key, value]; id is the identity of the object.           *)
(***************************************************************************)
None == [t |-> "none", v |-> 0]
IntAtom(k) == [t |-> "int", v |-> k]
StrAtom(k) == [t |-> "str", v |-> k]

\* BHNode.__init__: [err, node]
BHNode(id, key, value) ==
    IF key = None
    THEN [err |-> "InvalidKey", node |-> [id |-> id, key |-> key, value |-> value]]
    ELSE [err |-> "none",
          node |-> [id |-> id, key |-> key,
                    value |-> IF value # None THEN value ELSE key]]

\* BHNode.__eq__: == between an int and a str is False, it does not raise
node_eq(a, b) == a.key = b.key /\ a.value = b.value

\* BHNode.__ge__: self.key >= o.key raises TypeError between an int and a str
node_ge(a, b) ==
    IF a.key.t # b.key.t THEN [err |-> "TypeError", val |-> FALSE]
    ELSE [err |-> "none", val |-> a.key.v >= b.key.v]

\* BHNode.__lt__: not self.__ge__(o)
node_lt(a, b) ==
    LET g == node_ge(a, b)
    IN  IF g.err # "none" THEN g ELSE [err |-> "none", val |-> ~g.val]

(***************************************************************************)
(* BinaryHeap._create_list_of_heap_nodes.  An element of ls is             *)
(*   [tag |-> "num", items |-> <<k>>]   an int or float k,                 *)
(*   [tag |-> "none", items |-> <<>>]   None,                              *)
(*   [tag |-> "seq", items |-> s]       a tuple, list or string s.         *)
(* The result is [err, nodes]; the k-th node created gets identity         *)
(* base + k.                                                               *)
(***************************************************************************)
RECURSIVE create_loop(_, _, _, _)
create_loop(ls, k, base, nodes) ==
    IF k > Len(ls) THEN [err |-> "none", nodes |-> nodes]
    ELSE LET x == ls[k]
             id == base + Len(nodes) + 1
         IN  IF x.tag = "num"
             THEN create_loop(ls, k + 1, base,
                              Append(nodes, BHNode(id, x.items[1], None).node))
             ELSE IF x.tag = "none"                \* len(None)
             THEN [err |-> "TypeError", nodes |-> nodes]
             ELSE IF Len(x.items) # 2
             THEN [err |-> "InvalidArgument", nodes |-> nodes]
             ELSE IF x.items[1] = None \/ x.items[2] = None
             THEN [err |-> "InvalidKey", nodes |-> nodes]
             ELSE create_loop(ls, k + 1, base,
                      Append(nodes, BHNode(id, x.items[1], x.items[2]).node))

create_list_of_heap_nodes(ls, base) == create_loop(ls, 1, base, <<>>)

(***************************************************************************)
(* BinaryHeap._swap, and the hooks of the min-ordering policy.  A heap     *)
(* operation returns [heap, err]: the list as the operation left it and    *)
(* the error it raised, if any.  Index i of the code is h[i + 1] here.     *)
(***************************************************************************)
swap(h, i, j) ==
    IF is_good_index(Len(h), i) /\ is_good_index(Len(h), j)
    THEN [heap |-> [h EXCEPT ![i + 1] = h[j + 1], ![j + 1] = h[i + 1]],
          err |-> "none"]
    ELSE [heap |-> h, err |-> "IndexError"]

RECURSIVE push_down(_, _)
\* classical sift-down toward the smaller child
push_down(h, i) ==
    LET n == Len(h)
        l == left_index(n, i)
        r == right_index(n, i)
    IN  IF l.err # "none" THEN [heap |-> h, err |-> l.err]
        ELSE
        LET c1 == IF l.val # -1 THEN node_lt(h[l.val + 1], h[i + 1])
                  ELSE [err |-> "none", val |-> FALSE]
            m1 == IF c1.val THEN l.val ELSE i
            c2 == IF r.val # -1 THEN node_lt(h[r.val + 1], h[m1 + 1])
                  ELSE [err |-> "none", val |-> FALSE]
            m == IF c2.val THEN r.val ELSE m1
        IN  IF c1.err # "none" THEN [heap |-> h, err |-> c1.err]
            ELSE IF c2.err # "none" THEN [heap |-> h, err |-> c2.err]
            ELSE IF m = i THEN [heap |-> h, err |-> "none"]
            ELSE push_down(swap(h, m, i).heap, m)

RECURSIVE push_up(_, _)
\* classical sift-up: swap with the parent while the node is smaller
push_up(h, c) ==
    LET p == parent_index(Len(h), c)
    IN  IF p.err # "none" THEN [heap |-> h, err |-> p.err]
        ELSE IF p.val = -1 THEN [heap |-> h, err |-> "none"]
        ELSE LET lt == node_lt(h[c + 1], h[p.val + 1])
             IN  IF lt.err # "none" THEN [heap |-> h, err |-> lt.err]
                 ELSE IF ~lt.val THEN [heap |-> h, err |-> "none"]
                 ELSE push_up(swap(h, c, p.val).heap, p.val)

(***************************************************************************)
(* BinaryHeap._build_heap: [heap, err, calls], calls being the indices     *)
(* passed to _push_down, in order.                                         *)
(***************************************************************************)
RECURSIVE build_loop(_, _, _, _)
\* for index in range(first, stop, -1): self._push_down(index)
build_loop(h, idx, stop, done) ==
    IF idx <= stop THEN [heap |-> h, err |-> "none", calls |-> done]
    ELSE LET r == push_down(h, idx)
         IN  IF r.err # "none"
             THEN [heap |-> r.heap, err |-> r.err, calls |-> Append(done, idx)]
             ELSE build_loop(r.heap, idx - 1, stop, Append(done, idx))

\* _build_heap with range(len(self.heap) // 2, 0, -1): the root is skipped
build_heap_skips_root(h) ==
    IF h # <<>> THEN build_loop(h, Len(h) \div 2, 0, <<>>)
    ELSE [heap |-> h, err |-> "none", calls |-> <<>>]

\* _build_heap with range(len(self.heap) // 2 - 1, -1, -1)
build_heap_below_half(h) ==
    IF h # <<>> THEN build_loop(h, Len(h) \div 2 - 1, -1, <<>>)
    ELSE [heap |-> h, err |-> "none", calls |-> <<>>]

build_heap(h) ==
    IF h # <<>> THEN build_loop(h, Len(h) \div 2, -1, <<>>)
    ELSE [heap |-> h, err |-> "none", calls |-> <<>>]

(***************************************************************************)
(* BinaryHeap.add, search, contains, merge.  An argument x of add and      *)
(* search is [isNode, key, value]: a BHNode built by the caller when       *)
(* isNode, else the raw key `key` (None included).                         *)
(***************************************************************************)
\* add without the _push_up call
add_no_push_up(h, x, id) ==
    IF ~x.isNode /\ x.key = None THEN [heap |-> h, err |-> "InvalidKey"]
    ELSE [heap |-> Append(h, BHNode(id, x.key,
                                    IF x.isNode THEN x.value ELSE None).node),
          err |-> "none"]

add(h, x, id) ==
    IF ~x.isNode /\ x.key = None THEN [heap |-> h, err |-> "InvalidKey"]
    ELSE LET node == BHNode(id, x.key, IF x.isNode THEN x.value ELSE None).node
             h2 == Append(h, node)
         IN  IF Len(h2) > 1 THEN push_up(h2, Len(h2) - 1)
             ELSE [heap |-> h2, err |-> "none"]

RECURSIVE search_loop(_, _, _)
\* for i, node in enumerate(self.heap): if node == x: return i
search_loop(h, node, i) ==
    IF i >= Len(h) THEN -1
    ELSE IF node_eq(h[i + 1], node) THEN i
    ELSE search_loop(h, node, i + 1)

\* search comparing the keys alone
search_by_key(h, x) ==
    IF ~x.isNode /\ x.key = None THEN Raise("InvalidKey")
    ELSE IF \E i \in 1..Len(h) : h[i].key = x.key
         THEN Ok((CHOOSE i \in 1..Len(h) :
                    h[i].key = x.key /\ \A j \in 1..(i - 1) : h[j].key # x.key) - 1)
         ELSE Ok(-1)

search(h, x) ==
    IF ~x.isNode /\ x.key = None THEN Raise("InvalidKey")
    ELSE Ok(search_loop(h, BHNode(0, x.key, IF x.isNode THEN x.value ELSE None).node, 0))

contains(h, x) ==
    LET s == search(h, x)
    IN  IF s.err # "none" THEN [err |-> s.err, val |-> FALSE]
        ELSE [err |-> "none", val |-> s.val # -1]

\* merge that builds the heap over the receiver's own nodes only
merge_drops_donor(h, o) == build_heap(h)

\* self.heap += o.heap; self._build_heap()
merge(h, o) ==
    LET b == build_heap(h \o o)
    IN  [heap |-> b.heap, err |-> b.err, calls |-> b.calls]

(***************************************************************************)
(* The inputs the callers draw from.                                       *)
(***************************************************************************)
IntKeys == {IntAtom(k) : k \in 1..MaxKey}
Keys(m) == IF m THEN IntKeys \cup {StrAtom(1)} ELSE IntKeys
PairValues == {IntAtom(1)}

\* the elements a collection passed to the constructor is made of
GoodElements(m) ==
    {[tag |-> "num", items |-> <<k>>] : k \in IntKeys}
    \cup {[tag |-> "seq", items |-> <<k, v>>] : k \in Keys(m), v \in PairValues}
BadElements ==
    {[tag |-> "none", items |-> <<>>],
     [tag |-> "seq", items |-> <<IntAtom(1)>>],
     [tag |-> "seq", items |-> <<IntAtom(1), IntAtom(1), IntAtom(1)>>],
     [tag |-> "seq", items |-> <<None, IntAtom(1)>>],
     [tag |-> "seq", items |-> <<IntAtom(1), None>>]}

SeqsUpTo(S, n) == UNION {[1..k -> S] : k \in 0..n}

Collections(m) == SeqsUpTo(GoodElements(m) \cup BadElements, MaxLen)
DonorCollections(m) == SeqsUpTo(GoodElements(m), MaxDonor)

\* the arguments of add and search
NoArg == [isNode |-> FALSE, key |-> None, value |-> None]
Args(m) ==
    {[isNode |-> FALSE, key |-> k, value |-> None] : k \in Keys(m) \cup {None}}
    \cup {[isNode |-> TRUE, key |-> k, value |-> v] : k \in Keys(m), v \in PairValues}

(***************************************************************************)
(* Object identities.  Only which nodes are the same object matters, so    *)
(* after each operation the receiver's nodes are named by their position   *)
(* and the nodes of another list are renamed along.                        *)
(***************************************************************************)
Renumber(h) == [p \in 1..Len(h) |-> [h[p] EXCEPT !.id = p]]

RenameAlong(h, o) ==
    [q \in 1..Len(o) |->
        IF \E p \in 1..Len(h) : h[p].id = o[q].id
        THEN [o[q] EXCEPT !.id = CHOOSE p \in 1..Len(h) : h[p].id = o[q].id]
        ELSE [o[q] EXCEPT !.id = Len(h) + q]]

(***************************************************************************)
(* The heap engine as a state machine.                                     *)
(***************************************************************************)
InitIdle ==
    /\ size = 0 /\ index = 0
    /\ res = [fn |-> "none", arg2 |-> 0, err |-> "none", val |-> 0, bool |-> FALSE]
    /\ seq = <<>>
    /\ out = [fn |-> "none", val |-> <<0, 0, 0>>]

InitHeap(m) ==
    /\ heap = <<>> /\ other = <<>>
    /\ mixed = m
    /\ op = [name |-> "start", ls |-> <<>>, x |-> NoArg]
    /\ err = "none"
    /\ pre = <<>> /\ preOther = <<>>
    /\ calls = <<>>
    /\ ret = [val |-> -1, found |-> FALSE]

Init == InitHeap(FALSE) /\ InitIdle
InitMixed == InitHeap(TRUE) /\ InitIdle

\* a heap object exists: the constructor has run and has not raised
Alive == op.name # "start" /\ ~(op.name = "construct" /\ err # "none")

\* the heap is between two calls
Idle == op.name = "idle"

\* BinaryHeap.__init__(ls)
Construct ==
    /\ op.name = "start"
    /\ \E ls \in Collections(mixed) :
          LET c == create_list_of_heap_nodes(ls, 0)
              b == build_heap(c.nodes)
          IN  /\ op' = [name |-> "construct", ls |-> ls, x |-> NoArg]
              /\ IF c.err # "none"
                 THEN /\ err' = c.err
                      /\ heap' = <<>>
                      /\ calls' = <<>>
                      /\ pre' = <<>>
                 ELSE /\ err' = b.err
                      /\ heap' = Renumber(b.heap)
                      /\ calls' = b.calls
                      /\ pre' = RenameAlong(b.heap, c.nodes)
    /\ other' = <<>> /\ preOther' = <<>>
    /\ ret' = [val |-> -1, found |-> FALSE]
    /\ UNCHANGED <<mixed, idxVars, mscsVars>>

\* BinaryHeap.add(x)
Add ==
    /\ Idle
    /\ Len(heap) < MaxSize
    /\ \E x \in Args(mixed) :
          LET r == add(heap, x, Len(heap) + 1)
          IN  /\ op' = [name |-> "add", ls |-> <<>>, x |-> x]
              /\ err' = r.err
              /\ heap' = Renumber(r.heap)
              /\ pre' = RenameAlong(r.heap, heap)
    /\ other' = <<>> /\ preOther' = <<>> /\ calls' = <<>>
    /\ ret' = [val |-> -1, found |-> FALSE]
    /\ UNCHANGED <<mixed, idxVars, mscsVars>>

\* BinaryHeap.merge(o), o a heap built by the constructor from its own nodes
Merge ==
    /\ Idle
    /\ \E ls \in DonorCollections(mixed) :
          LET d == build_heap(create_list_of_heap_nodes(ls, Len(heap)).nodes)
              r == merge(heap, d.heap)
          IN  /\ Len(heap) + Len(ls) <= MaxSize
              /\ d.err = "none"
              /\ op' = [name |-> "merge", ls |-> ls, x |-> NoArg]
              /\ err' = r.err
              /\ calls' = r.calls
              /\ heap' = Renumber(r.heap)
              /\ other' = RenameAlong(r.heap, d.heap)
              /\ pre' = RenameAlong(r.heap, heap)
              /\ preOther' = RenameAlong(r.heap, d.heap)
    /\ ret' = [val |-> -1, found |-> FALSE]
    /\ UNCHANGED <<mixed, idxVars, mscsVars>>

\* BinaryHeap.merge(None): o.heap raises before self.heap is touched
MergeNone ==
    /\ Idle
    /\ op' = [name |-> "merge_none", ls |-> <<>>, x |-> NoArg]
    /\ err' = "AttributeError"
    /\ pre' = heap
    /\ other' = <<>> /\ preOther' = <<>> /\ calls' = <<>>
    /\ ret' = [val |-> -1, found |-> FALSE]
    /\ UNCHANGED <<heap, mixed, idxVars, mscsVars>>

\* BinaryHeap.search(x)
Search ==
    /\ Idle
    /\ \E x \in Args(mixed) :
          LET r == search(heap, x)
          IN  /\ op' = [name |-> "search", ls |-> <<>>, x |-> x]
              /\ err' = r.err
              /\ ret' = [val |-> r.val, found |-> FALSE]
    /\ pre' = heap
    /\ other' = <<>> /\ preOther' = <<>> /\ calls' = <<>>
    /\ UNCHANGED <<heap, mixed, idxVars, mscsVars>>

\* BinaryHeap.contains(x)
Contains ==
    /\ Idle
    /\ \E x \in Args(mixed) :
          LET r == contains(heap, x)
          IN  /\ op' = [name |-> "contains", ls |-> <<>>, x |-> x]
              /\ err' = r.err
              /\ ret' = [val |-> -1, found |-> r.val]
    /\ pre' = heap
    /\ other' = <<>> /\ preOther' = <<>> /\ calls' = <<>>
    /\ UNCHANGED <<heap, mixed, idxVars, mscsVars>>

\* BinaryHeap.clear()
Clear ==
    /\ Idle
    /\ op' = [name |-> "clear", ls |-> <<>>, x |-> NoArg]
    /\ err' = "none"
    /\ heap' = <<>>
    /\ pre' = heap
    /\ other' = <<>> /\ preOther' = <<>> /\ calls' = <<>>
    /\ ret' = [val |-> -1, found |-> FALSE]
    /\ UNCHANGED <<mixed, idxVars, mscsVars>>

\* the caller has looked at the outcome of the call and goes on: the record
\* of the call (op, err, pre, preOther, calls, ret, other) is dropped
Forget ==
    /\ Alive /\ ~Idle
    /\ op' = [name |-> "idle", ls |-> <<>>, x |-> NoArg]
    /\ err' = "none"
    /\ pre' = <<>> /\ preOther' = <<>> /\ other' = <<>> /\ calls' = <<>>
    /\ ret' = [val |-> -1, found |-> FALSE]
    /\ UNCHANGED <<heap, mixed, idxVars, mscsVars>>

Next == Construct \/ Forget \/ Add \/ Merge \/ MergeNone \/ Search \/ Contains \/ Clear

Spec == Init /\ [][Next]_vars
SpecMixed == InitMixed /\ [][Next]_vars

(***************************************************************************)
(* SpecIdx: the index functions applied to a size and an index.            *)
(***************************************************************************)
Indices == (0 - 2)..(2 * MaxN + 3)

InitIdx ==
    /\ InitHeap(FALSE)
    /\ size \in 0..MaxN
    /\ index \in Indices
    /\ res = [fn |-> "none", arg2 |-> 0, err |-> "none", val |-> 0, bool |-> FALSE]
    /\ seq = <<>>
    /\ out = [fn |-> "none", val |-> <<0, 0, 0>>]

IntResult(fn, r) ==
    [fn |-> fn, arg2 |-> 0, err |-> r.err, val |-> r.val, bool |-> FALSE]
BoolResult(fn, r) ==
    [fn |-> fn, arg2 |-> 0, err |-> r.err, val |-> 0, bool |-> r.val]
\* the result of a predicate over the operands index and j
RelResult(fn, j, r) ==
    [fn |-> fn, arg2 |-> j, err |-> r.err, val |-> 0, bool |-> r.val]

ParentIndex ==
    /\ res' = IntResult("parent_index", parent_index(size, index))
    /\ UNCHANGED <<heapVars, size, index, mscsVars>>

LeftIndex ==
    /\ res' = IntResult("left_index", left_index(size, index))
    /\ UNCHANGED <<heapVars, size, index, mscsVars>>

RightIndex ==
    /\ res' = IntResult("right_index", right_index(size, index))
    /\ UNCHANGED <<heapVars, size, index, mscsVars>>

IsOnEvenLevel ==
    /\ res' = BoolResult("is_on_even_level", is_on_even_level(size, index))
    /\ UNCHANGED <<heapVars, size, index, mscsVars>>

IsOnOddLevel ==
    /\ res' = BoolResult("is_on_odd_level", is_on_odd_level(size, index))
    /\ UNCHANGED <<heapVars, size, index, mscsVars>>

GrandparentIndex ==
    /\ res' = IntResult("grandparent_index", grandparent_index(size, index))
    /\ UNCHANGED <<heapVars, size, index, mscsVars>>

\* _is_child(c, i) with c = index and i = j
IsChild ==
    /\ \E j \in Indices :
          res' = RelResult("is_child", j, is_child(size, index, j))
    /\ UNCHANGED <<heapVars, size, index, mscsVars>>

\* _is_grandchild(g, i) with g = index and i = j
IsGrandchild ==
    /\ \E j \in Indices :
          res' = RelResult("is_grandchild", j, is_grandchild(size, index, j))
    /\ UNCHANGED <<heapVars, size, index, mscsVars>>

\* _is_parent(p, i) with p = index and i = j
IsParent ==
    /\ \E j \in Indices :
          res' = RelResult("is_parent", j, is_parent(size, index, j))
    /\ UNCHANGED <<heapVars, size, index, mscsVars>>

\* _is_grandparent(g, i) with g = index and i = j
IsGrandparent ==
    /\ \E j \in Indices :
          res' = RelResult("is_grandparent", j, is_grandparent(size, index, j))
    /\ UNCHANGED <<heapVars, size, index, mscsVars>>

NextIdx ==
    \/ ParentIndex \/ LeftIndex \/ RightIndex \/ IsOnEvenLevel \/ IsOnOddLevel
    \/ GrandparentIndex \/ IsChild \/ IsGrandchild \/ IsParent \/ IsGrandparent

SpecIdx == InitIdx /\ [][NextIdx]_vars

(***************************************************************************)
(* SpecMscs: the four functions applied to a non-empty sequence.           *)
(***************************************************************************)
InitMscs ==
    /\ InitHeap(FALSE)
    /\ size = 0 /\ index = 0
    /\ res = [fn |-> "none", arg2 |-> 0, err |-> "none", val |-> 0, bool |-> FALSE]
    /\ seq \in UNION {[1..k -> (0 - MaxAbs)..MaxAbs] : k \in 1..MaxSeqLen}
    /\ out = [fn |-> "none", val |-> <<0, 0, 0>>]

BruteForce ==
    /\ out' = [fn |-> "brute_force_mscs", val |-> brute_force_mscs(seq)]
    /\ UNCHANGED <<heapVars, idxVars, seq>>

BetterBruteForce ==
    /\ out' = [fn |-> "better_brute_force_mscs", val |-> better_brute_force_mscs(seq)]
    /\ UNCHANGED <<heapVars, idxVars, seq>>

BottomUp ==
    /\ out' = [fn |-> "bottom_up_mscs", val |-> bottom_up_mscs(seq)]
    /\ UNCHANGED <<heapVars, idxVars, seq>>

BetterBottomUp ==
    /\ out' = [fn |-> "better_bottom_up_mscs", val |-> better_bottom_up_mscs(seq)]
    /\ UNCHANGED <<heapVars, idxVars, seq>>

NextMscs == BruteForce \/ BetterBruteForce \/ BottomUp \/ BetterBottomUp

SpecMscs == InitMscs /\ [][NextMscs]_vars

(***************************************************************************)
(* C7                                                                      *)
(***************************************************************************)
\* the sum of s[a..b], 0-based and inclusive, taken from the right end
RECURSIVE SliceSum(_, _, _)
SliceSum(s, a, b) == IF b < a THEN 0 ELSE SliceSum(s, a, b - 1) + s[b + 1]

\* the sums of all non-empty contiguous subsequences of s
ContiguousSums(s) ==
    UNION {{SliceSum(s, a, b) : b \in a..(Len(s) - 1)} : a \in 0..(Len(s) - 1)}
MaxContiguousSum(s) ==
    CHOOSE m \in ContiguousSums(s) : \A t \in ContiguousSums(s) : t <= m

\* C7: for every non-empty integer sequence, better_bottom_up_mscs returns
\* (s, start, end) with 0 <= start <= end < len(seq), s the sum of
\* seq[start..end] and s the maximum sum over all non-empty contiguous
\* subsequences; brute_force_mscs, better_brute_force_mscs and
\* bottom_up_mscs return that same sum.
C7_MaxSum ==
    /\ out.fn = "better_bottom_up_mscs" =>
          /\ 0 <= out.val[2] /\ out.val[2] <= out.val[3] /\ out.val[3] < Len(seq)
          /\ out.val[1] = SliceSum(seq, out.val[2], out.val[3])
          /\ out.val[1] = MaxContiguousSum(seq)
    /\ out.fn \in {"brute_force_mscs", "better_brute_force_mscs", "bottom_up_mscs"} =>
          out.val[1] = MaxContiguousSum(seq)

\* the running sum has been restarted after a non-positive prefix and the
\* maximum lies strictly inside the sequence
C7_Witness ==
    /\ out.fn = "better_bottom_up_mscs"
    /\ Len(seq) = MaxSeqLen
    /\ out.val[2] > 0 /\ out.val[3] < Len(seq) - 1 /\ out.val[2] < out.val[3]

(***************************************************************************)
(* C9                                                                      *)
(***************************************************************************)
Valid(n, i) == 0 <= i /\ i < n

\* C9: parentIndex(0) = -1; for a valid i > 0 parentIndex(i) is a valid
\* index p < i with i = leftIndex(p) or i = rightIndex(p); leftIndex(i) and
\* rightIndex(i) return -1 exactly when 2i+1 (2i+2) >= n, and otherwise a
\* valid index c with parentIndex(c) = i; outside [0, n) all three fail
\* with InvalidIndex (IndexError).
C9_RoundTrip ==
    /\ res.fn \in {"parent_index", "left_index", "right_index"} =>
          (res.err = (IF Valid(size, index) THEN "none" ELSE "IndexError"))
    /\ (res.fn = "parent_index" /\ Valid(size, index)) =>
          IF index = 0 THEN res.val = -1
          ELSE /\ Valid(size, res.val) /\ res.val < index
               /\ \/ left_index(size, res.val) = Ok(index)
                  \/ right_index(size, res.val) = Ok(index)
    /\ (res.fn = "left_index" /\ Valid(size, index)) =>
          /\ (res.val = -1) <=> (2 * index + 1 >= size)
          /\ res.val # -1 =>
                Valid(size, res.val) /\ parent_index(size, res.val) = Ok(index)
    /\ (res.fn = "right_index" /\ Valid(size, index)) =>
          /\ (res.val = -1) <=> (2 * index + 2 >= size)
          /\ res.val # -1 =>
                Valid(size, res.val) /\ parent_index(size, res.val) = Ok(index)

\* a right child's parent has been computed
C9_Witness ==
    /\ res.fn = "parent_index" /\ res.err = "none"
    /\ index > 2 /\ index % 2 = 0
    /\ right_index(size, res.val) = Ok(index)

(***************************************************************************)
(* C10                                                                     *)
(***************************************************************************)
\* the number of parent_index steps from i to the root
RECURSIVE StepsToRoot(_, _)
StepsToRoot(n, i) ==
    IF parent_index(n, i).val = -1 THEN 0
    ELSE 1 + StepsToRoot(n, parent_index(n, i).val)

\* C10: for a valid index, isOnEvenLevel is true iff the number of
\* parentIndex steps to the root is even; the root is on an even level;
\* isOnOddLevel is the negation of isOnEvenLevel.
C10_LevelParity ==
    /\ (res.fn = "is_on_even_level" /\ Valid(size, index)) =>
          /\ res.err = "none"
          /\ res.bool <=> (StepsToRoot(size, index) % 2 = 0)
          /\ index = 0 => res.bool
    /\ (res.fn = "is_on_odd_level" /\ Valid(size, index)) =>
          /\ res.err = "none"
          /\ res.bool <=> ~is_on_even_level(size, index).val
          /\ res.bool <=> (StepsToRoot(size, index) % 2 = 1)

\* an index three levels below the root is reported on an odd level
C10_Witness ==
    /\ res.fn = "is_on_odd_level" /\ res.err = "none"
    /\ StepsToRoot(size, index) = 3
    /\ res.bool

(***************************************************************************)
(* C1                                                                      *)
(***************************************************************************)
\* key(heap[(i-1)//2]) <= key(heap[i]) for every index i with 1 <= i < size
HeapOrdered(h) ==
    \A i \in 1..(Len(h) - 1) :
        /\ h[(i - 1) \div 2 + 1].key.t = h[i + 1].key.t
        /\ h[(i - 1) \div 2 + 1].key.v <= h[i + 1].key.v

\* C1: under the min-ordering policy the heap invariant holds for every
\* index after construction from any collection of keys and after every
\* completed add and merge, in any sequence of such operations.
C1_HeapInvariant ==
    /\ Alive => HeapOrdered(heap)
    /\ (op.name = "merge" \/ (op.name = "add" /\ op.x.key # None)) => err = "none"

\* a merge of two heaps of two nodes each has completed and Floyd's pass
\* moved nodes
C1_Witness ==
    /\ op.name = "merge" /\ err = "none"
    /\ Len(pre) >= 2 /\ Len(preOther) >= 2
    /\ heap # pre \o preOther
    /\ ~HeapOrdered(pre \o preOther)

(***************************************************************************)
(* C2                                                                      *)
(***************************************************************************)
KeyCount(h, k) == Cardinality({p \in 1..Len(h) : h[p].key = k})

\* C2: add(x) with x not absent makes the multiset of keys the previous one
\* plus one occurrence of x's key, and size() grows by 1; merge(other)
\* makes it the multiset union of the receiver's and the donor's keys, and
\* size() = n + other.size().
C2_ContentConserved ==
    /\ (op.name = "add" /\ op.x.key # None) =>
          /\ err = "none"
          /\ Len(heap) = Len(pre) + 1
          /\ \A k \in Keys(TRUE) :
                KeyCount(heap, k) = KeyCount(pre, k) + (IF k = op.x.key THEN 1 ELSE 0)
    /\ op.name = "merge" =>
          /\ err = "none"
          /\ Len(heap) = Len(pre) + Len(preOther)
          /\ \A k \in Keys(TRUE) :
                KeyCount(heap, k) = KeyCount(pre, k) + KeyCount(preOther, k)

\* a merge of two non-empty heaps that have a key in common
C2_Witness ==
    /\ op.name = "merge" /\ err = "none"
    /\ \E k \in Keys(TRUE) : KeyCount(pre, k) >= 1 /\ KeyCount(preOther, k) >= 1
    /\ \E k \in Keys(TRUE) : KeyCount(heap, k) >= 3

(***************************************************************************)
(* C3                                                                      *)
(***************************************************************************)
\* the key and the value of the node x stands for: a raw key k is the node
\* with key k and value k
XKey(x) == x.key
XValue(x) == IF x.isNode THEN x.value ELSE x.key
EqualsX(n, x) == n.key = XKey(x) /\ n.value = XValue(x)

C4_FailureLeavesHeap ==
    (op.name \in {"add", "merge", "merge_none"} /\ err # "none") => heap = pre

(***************************************************************************)
(* C5                                                                      *)
(***************************************************************************)
AbsentRaw(e) == e.tag = "none"
AbsentInPair(e) ==
    e.tag = "seq" /\ Len(e.items) = 2 /\ (e.items[1] = None \/ e.items[2] = None)
WrongArity(e) == e.tag = "seq" /\ Len(e.items) # 2
SomeAbsentRaw(ls) == \E k \in 1..Len(ls) : AbsentRaw(ls[k])
SomeAbsentInPair(ls) == \E k \in 1..Len(ls) : AbsentInPair(ls[k])
SomeWrongArity(ls) == \E k \in 1..Len(ls) : WrongArity(ls[k])

\* C5: construction from a collection with an absent raw key, or with a
\* pair whose key or value is absent, fails with InvalidKey; add(x) with an
\* absent x fails with InvalidKey; an element of a length other than 2
\* fails at construction with InvalidArgument; no heap ever holds a node
\* with an absent key.  (A collection with defects of both kinds is left
\* to either error.)
C5_AbsentRejected ==
    /\ (op.name = "construct" /\ ~SomeWrongArity(op.ls)
            /\ (SomeAbsentRaw(op.ls) \/ SomeAbsentInPair(op.ls))) =>
          err = "InvalidKey"
    /\ (op.name = "construct" /\ SomeWrongArity(op.ls)
            /\ ~SomeAbsentRaw(op.ls) /\ ~SomeAbsentInPair(op.ls)) =>
          err = "InvalidArgument"
    /\ (op.name = "add" /\ op.x.key = None) => err = "InvalidKey"
    /\ \A p \in 1..Len(heap) : heap[p].key # None

(***************************************************************************)
(* C6                                                                      *)
(***************************************************************************)
\* C6: after merge(other) has returned, no node is an element of both the
\* receiver's node sequence and the donor's.
C6_NoSharedNode ==
    (op.name = "merge" /\ err = "none") =>
        \A p \in 1..Len(heap) : \A q \in 1..Len(other) : heap[p].id # other[q].id

(***************************************************************************)
(* C8                                                                      *)
(***************************************************************************)
\* C8: on a sequence of length n >= 1 _build_heap calls push_down once for
\* each of floor(n/2), floor(n/2) - 1, ..., 0, in that order, every index
\* being valid; on an empty sequence it calls no hook and changes nothing.
C8_BuildCalls ==
    (op.name \in {"construct", "merge"} /\ err = "none") =>
        LET n == Len(heap)
        IN  IF n = 0 THEN calls = <<>> /\ pre = <<>> /\ preOther = <<>>
            ELSE /\ Len(calls) = n \div 2 + 1
                 /\ \A k \in 1..Len(calls) :
                       calls[k] = n \div 2 - (k - 1) /\ Valid(n, calls[k])

\* the constructor built a heap of three nodes, calling push_down(1) and
\* push_down(0), and the root changed
C8_Witness ==
    /\ op.name = "construct" /\ err = "none"
    /\ Len(heap) = 3 /\ calls = <<1, 0>>
    /\ heap # pre

(***************************************************************************)
(* C11                                                                     *)
(***************************************************************************)
Relational == {"is_child", "is_grandchild", "is_parent", "is_grandparent"}

\* C11: for every size and every pair of valid indices each relational
\* predicate returns a bool without raising (the assertion of
\* _is_grandchild included); isChild(c, i) iff parentIndex(c) = i iff
\* isParent(i, c); isGrandchild(g, i) iff grandparentIndex(g) = i iff
\* isGrandparent(i, g); with an operand outside [0, size) each predicate
\* fails with InvalidIndex (IndexError).
C11_Relations ==
    /\ res.fn \in Relational =>
          (res.err = (IF Valid(size, index) /\ Valid(size, res.arg2)
                      THEN "none" ELSE "IndexError"))
    /\ (res.fn = "grandparent_index" /\ Valid(size, index)) =>
          /\ res.err = "none"
          /\ res.val = (IF index <= 2 THEN -1
                        ELSE parent_index(size, parent_index(size, index).val).val)
    /\ (res.fn = "is_child" /\ res.err = "none") =>
          /\ res.bool <=> (parent_index(size, index) = Ok(res.arg2))
          /\ is_parent(size, res.arg2, index) = Yes(res.bool)
    /\ (res.fn = "is_parent" /\ res.err = "none") =>
          /\ res.bool <=> (parent_index(size, res.arg2) = Ok(index))
          /\ is_child(size, res.arg2, index) = Yes(res.bool)
    /\ (res.fn = "is_grandchild" /\ res.err = "none") =>
          /\ res.bool <=> (grandparent_index(size, index) = Ok(res.arg2))
          /\ is_grandparent(size, res.arg2, index) = Yes(res.bool)
    /\ (res.fn = "is_grandparent" /\ res.err = "none") =>
          /\ res.bool <=> (grandparent_index(size, res.arg2) = Ok(index))
          /\ is_grandchild(size, res.arg2, index) = Yes(res.bool)

\* a grandchild below the right child of a node other than the root is
\* recognised
C11_Witness ==
    /\ res.fn = "is_grandchild" /\ res.err = "none" /\ res.bool
    /\ res.arg2 > 0
    /\ index \in {4 * res.arg2 + 5, 4 * res.arg2 + 6}

====
